---- MODULE Spec2Model ----
(***************************************************************************)
(* Feed aggregation of mmingle: the bulk loader loadPostsWithCounts with   *)
(* its batch planner (getSafeBatchSize, chunkArray), the single-item count *)
(* cache getCachedPostCounts, the map viewport loader Map.loadPostsInArea   *)
(* and the paginated list of HomePageContent (loadRecentPosts, loadMore),  *)
(* modelled at the granularity of the JavaScript                           *)
(* event loop: one action is the code that runs between two awaits, or one *)
(* event delivered by the environment (a response, a timer, a map idle).   *)
(***************************************************************************)
EXTENDS Integers, Sequences, FiniteSets, TLC

\* ------------------------------------------------------------------ bounds
MaxPosts == 7          \* most posts a primary query returns in the bulk model
MaxIds == 104          \* most identifiers handed to the batch planner alone
MaxFaults == 1         \* most failed requests in one run of the bulk loader
MaxLoads == 2          \* most viewport loads the map issues in one run
MaxCalls == 2          \* most calls of getCachedPostCounts in one run
MaxTicks == 3          \* most advances of the clock in one run
MaxListLoads == 6      \* most calls of loadRecentPosts in one run of the list
MaxScrolls == 2        \* most scroll triggers in one run of the list
MaxClicks == 3         \* most clicks on the like button of the card
MaxEdits == 3          \* most changes of the search text or the view mode

\* ------------------------------------------------------- program constants
MAX_BATCH_SIZE == 50
MAX_URL_LENGTH == 2000
avgIdLength == 36
WaveSize == 3
CACHE_DURATION == 30000

\* lengths of the template string baseUrl the environment can produce: the
\* text "/rest/v1/comments?select=post_id&post_id=in.(" is 45 characters and
\* process.env.SUPABASE_URL supplies the rest (9 characters, "undefined",
\* when the variable is not set)
BaseUrlLens == {54, 1879, 1916, 1953, 1970, 2030}

NoUser == "anon"

Min2(a, b) == IF a <= b THEN a ELSE b

\* Math.floor(a / b) for b > 0 ; TLA+ \div already rounds towards minus infinity
MathFloorDiv(a, b) == a \div b

\* ------------------------------------------------------------ batch planner
safeCount(urlLen) == MathFloorDiv(MAX_URL_LENGTH - urlLen - 10, avgIdLength + 1)

getSafeBatchSize(postIds, urlLen) ==
    Min2(Min2(safeCount(urlLen), MAX_BATCH_SIZE), Len(postIds))

\* slice with the end index taken as inclusive
SliceInclusive(array, from, to) ==
    LET hi == Min2(to + 1, Len(array))
    IN  IF from >= hi THEN << >> ELSE [k \in 1..(hi - from) |-> array[from + k]]

\* Array.prototype.slice(from, to) for 0 <= from, to clamped to the length
Slice(array, from, to) ==
    LET hi == Min2(to, Len(array))
    IN  IF from >= hi THEN << >> ELSE [k \in 1..(hi - from) |-> array[from + k]]

RECURSIVE chunkFrom(_, _, _)
chunkFrom(array, chunkSize, i) ==
    IF i >= Len(array) THEN << >>
    ELSE << Slice(array, i, i + chunkSize) >> \o chunkFrom(array, chunkSize, i + chunkSize)

\* the for loop of chunkArray ends only if i passes array.length: with a
\* chunkSize <= 0 and a non-empty array it never does
chunkArrayTerminates(array, chunkSize) == Len(array) = 0 \/ chunkSize > 0

chunkArray(array, chunkSize) == chunkFrom(array, chunkSize, 0)


\* ------------------------------------------------------- the backend store
\* rows of the tables likes and comments; several rows may name one post
Row(id, post, usr) == [id |-> id, post_id |-> post, user_id |-> usr]

FewLikes == {Row(1, 1, "v1"), Row(2, 1, "v2"), Row(3, 2, "v2")}
ManyLikes ==
    {Row(1, 1, "v1"), Row(2, 2, "v1"), Row(3, 4, "v2"), Row(4, 4, "v1"),
     Row(5, MaxPosts, "v1"), Row(6, MaxPosts, "v2"), Row(7, MaxPosts + 2, "v1")}
OneComment == {Row(1, 1, "v1")}
ManyComments ==
    {Row(1, 4, "v1"), Row(2, 4, "v1"), Row(3, 3, "v2"),
     Row(4, MaxPosts, "v2"), Row(5, MaxPosts + 2, "v2")}

\* the contents of the store the model starts from
Stores ==
    { [likes |-> {}, comments |-> {}],
      [likes |-> FewLikes, comments |-> OneComment],
      [likes |-> ManyLikes, comments |-> ManyComments] }

\* the rows of a table in the order of their ids
RECURSIVE RowsInOrder(_)
RowsInOrder(rows) ==
    IF rows = {} THEN << >>
    ELSE LET first == CHOOSE r \in rows : \A q \in rows : r.id <= q.id
         IN  << first >> \o RowsInOrder(rows \ {first})

ProjectPostId(rowSeq) == [k \in 1..Len(rowSeq) |-> [post_id |-> rowSeq[k].post_id]]

SeqRange(s) == {s[k] : k \in 1..Len(s)}

\* supabase.from(t).select("post_id").in("post_id", chunk)
SelectIn(table, chunk) ==
    ProjectPostId(RowsInOrder({r \in table : r.post_id \in SeqRange(chunk)}))

\* the viewer-like query without its user_id filter
SelectEqInAnyUser(table, usr, chunk) ==
    ProjectPostId(RowsInOrder({r \in table : r.post_id \in SeqRange(chunk)}))

\* supabase.from("likes").select("post_id").eq("user_id", u).in("post_id", chunk)
SelectEqIn(table, usr, chunk) ==
    ProjectPostId(RowsInOrder({r \in table : r.user_id = usr /\ r.post_id \in SeqRange(chunk)}))

\* ---------------------------------------------------------- count aggregator
\* rows.reduce((acc, row) => { acc[row.post_id] = (acc[row.post_id] || 0) + 1 }, {})
Lookup(acc, key) == IF key \in DOMAIN acc THEN acc[key] ELSE 0

\* a reduce that records a key as seen instead of counting its rows
RECURSIVE reduceSeen(_, _)
reduceSeen(rows, acc) ==
    IF rows = << >> THEN acc
    ELSE LET key == Head(rows).post_id
         IN  reduceSeen(Tail(rows), [k \in DOMAIN acc \cup {key} |-> 1])

RECURSIVE reduceCounts(_, _)
reduceCounts(rows, acc) ==
    IF rows = << >> THEN acc
    ELSE LET key == Head(rows).post_id
             bumped == [k \in DOMAIN acc \cup {key} |->
                           IF k = key THEN Lookup(acc, key) + 1 ELSE acc[k]]
         IN  reduceCounts(Tail(rows), bumped)

EmptyAcc == [k \in {} |-> 0]

RECURSIVE Flat(_)
Flat(seqs) == IF seqs = << >> THEN << >> ELSE Head(seqs) \o Flat(Tail(seqs))

\* postsData.map(post => ({...post, likes_count, comments_count, is_liked}))
annotate(posts, likeRows, commentRows, userLikeRows) ==
    LET likedPostIds == {r.post_id : r \in SeqRange(userLikeRows)}
        likeCounts == reduceCounts(likeRows, EmptyAcc)
        commentCounts == reduceCounts(commentRows, EmptyAcc)
    IN  [k \in 1..Len(posts) |->
            [id |-> posts[k].id,
             likes_count |-> Lookup(likeCounts, posts[k].id),
             comments_count |-> Lookup(commentCounts, posts[k].id),
             is_liked |-> posts[k].id \in likedPostIds]]

\* the data field of a response: rows, or null when the request failed
NullData == [isNull |-> TRUE, rows |-> << >>]
Data(rows) == [isNull |-> FALSE, rows |-> rows]
\* data || []   and   data?.reduce(...) || {}
orEmpty(data) == IF data.isNull THEN << >> ELSE data.rows

\* getPostStats of lib/queries, from the data of its two responses
getPostStats(likesData, commentsData) ==
    [likesCounts |-> reduceCounts(orEmpty(likesData), EmptyAcc),
     commentsCounts |-> reduceCounts(orEmpty(commentsData), EmptyAcc)]

\* likesData?.map((like) => like.post_id) || []
postIdsOfRows(data) == [k \in 1..Len(orEmpty(data)) |-> orEmpty(data)[k].post_id]

\* Array.prototype.includes
includes(array, x) == \E k \in 1..Len(array) : array[k] = x

\* an is_liked that is true for every post once the viewer has liked any
postsWithStatsAnyLiked(posts, stats, likedIds) ==
    [k \in 1..Len(posts) |->
        [id |-> posts[k].id,
         likes_count |-> Lookup(stats.likesCounts, posts[k].id),
         comments_count |-> Lookup(stats.commentsCounts, posts[k].id),
         is_liked |-> likedIds # << >>]]

\* postsWithStats of loadRecentPosts and of searchPosts
postsWithStats(posts, stats, likedIds) ==
    [k \in 1..Len(posts) |->
        [id |-> posts[k].id,
         likes_count |-> Lookup(stats.likesCounts, posts[k].id),
         comments_count |-> Lookup(stats.commentsCounts, posts[k].id),
         is_liked |-> includes(likedIds, posts[k].id)]]

\* ------------------------------------------------------------------- state
VARIABLES
    \* the backend tables and the signed-in viewer
    likes, comments, user,
    \* loadPostsWithCounts
    baseUrlLen, pc, postsData, queryError, safeBatchSize, postIdChunks, i,
    req, resp, faults, allLikesData, allCommentsData, userLikes, result,
    \* likesBatchPromises and commentsBatchPromises: the waves pushed so far
    batchPromises,
    \* the batch planner on its own
    planIds, planUrlLen, planPc, planSize, planChunks,
    \* the Map component: the map state, the viewport of the Google map, the
    \* calls of loadPostsInArea in the order they were made, the posts state
    map, mapBounds, loads, mapPosts, mapFaults, idleEvents,
    \* getCachedPostCounts: the clock Date.now() reads, the module-level cache,
    \* the calls made so far with their local variables
    now, ticks, countsCache, calls, callsMade, lastReturn, cacheFaults,
    \* the list mode of HomePageContent: the rows of the posts table, the React
    \* state (posts, loading, hasMore, page, error), the calls of
    \* loadRecentPosts that have not returned in the order they were made,
    \* how many were made, the call that returned last and the call of
    \* loadMore that returned last, the effect of the last commit that has not
    \* run yet, and the scroll triggers delivered so far
    listTotal, listPosts, loading, hasMore, page, error, listLoads,
    listCalls, lastDone, lastAppend,
    effectPending, renderedLoading, slipped, triggers, listFaults,
    \* one PostCard shown to the viewer: the post.is_liked prop it renders, its
    \* isLiking state, the toggleLike call in flight, the reloads of the post
    \* data started by onUpdate, and the toggles that ran to their end
    cardLiked, isLiking, likeOp, cardReloads, toggled, clicks, cardPost,
    ownPost, cardFaults,
    \* the search box of HomePageContent: the input's text, its debounced
    \* copy with the timer of useDebounce, the view mode, and the calls the
    \* search effect has made
    searchQuery, debouncedSearch, debounceTimer, viewMode, searchRuns, edits

envVars == << likes, comments, user >>
bulkVars == << baseUrlLen, pc, postsData, queryError,
               safeBatchSize, postIdChunks, i, req, resp, faults,
               allLikesData, allCommentsData, userLikes, result, batchPromises >>
planVars == << planIds, planUrlLen, planPc, planSize, planChunks >>
mapVars == << map, mapBounds, loads, mapPosts, mapFaults, idleEvents >>
cacheVars == << now, ticks, countsCache, calls, callsMade, lastReturn, cacheFaults >>
listVars == << listTotal, listPosts, loading, hasMore, page, error, listLoads,
               listCalls, lastDone, lastAppend,
               effectPending, renderedLoading, slipped, triggers, listFaults >>
cardVars == << cardLiked, isLiking, likeOp, cardReloads, toggled, clicks,
               cardPost, ownPost, cardFaults >>
searchVars == << searchQuery, debouncedSearch, debounceTimer, viewMode,
                 searchRuns, edits >>
vars == << envVars, bulkVars, planVars, mapVars, cacheVars, listVars,
           cardVars, searchVars >>

Kinds == {"likes", "comments", "userLikes"}

\* state of a component that is not running in the specification at hand
EnvIdle == likes = {} /\ comments = {} /\ user = NoUser

EnvInit ==
    /\ \E store \in Stores : likes = store.likes /\ comments = store.comments
    /\ user \in {NoUser, "v1"}

BulkIdle ==
    /\ baseUrlLen = 54
    /\ pc = "off" /\ postsData = << >> /\ queryError = FALSE
    /\ safeBatchSize = 0 /\ postIdChunks = << >> /\ i = 0
    /\ req = [k \in Kinds |-> << >>] /\ resp = [k \in Kinds |-> << >>]
    /\ faults = 0 /\ allLikesData = << >> /\ allCommentsData = << >>
    /\ userLikes = << >> /\ result = << >>
    /\ batchPromises = [k \in {"likes", "comments"} |-> << >>]

PlanIdle ==
    /\ planIds = << >> /\ planUrlLen = 54 /\ planPc = "off"
    /\ planSize = 0 /\ planChunks = << >>

LatLng(lat, lng) == [lat |-> lat, lng |-> lng]
Box(sw, ne) == [sw |-> sw, ne |-> ne]

\* the viewports the map can settle on
Boxes == { Box(LatLng(1, 1), LatLng(2, 2)),
           Box(LatLng(2, 2), LatLng(3, 3)),
           Box(LatLng(5, 5), LatLng(6, 6)),
           Box(LatLng(8, 8), LatLng(9, 9)) }

CacheIdle ==
    /\ now = 0 /\ ticks = 0 /\ countsCache = << >> /\ calls = << >>
    /\ callsMade = 0 /\ lastReturn = << >> /\ cacheFaults = 0

MapIdleState ==
    /\ map = "null" /\ mapBounds = Box(LatLng(1, 1), LatLng(2, 2))
    /\ loads = << >> /\ mapPosts = << >> /\ mapFaults = 0 /\ idleEvents = 0

\* no call of loadRecentPosts has returned yet
NoneDone == [pageNum |-> 0, reset |-> TRUE, outcome |-> "none", rows |-> 0]

ListIdle ==
    /\ listTotal = 0 /\ listPosts = << >> /\ loading = TRUE /\ hasMore = TRUE
    /\ page = 0 /\ error = FALSE /\ listLoads = << >>
    /\ listCalls = 0 /\ lastDone = NoneDone /\ lastAppend = NoneDone
    /\ effectPending = "none" /\ renderedLoading = TRUE /\ slipped = FALSE
    /\ triggers = << >> /\ listFaults = 0

\* the timer of useDebounce: not running, or running with the text to deliver
TimerOff == [on |-> FALSE, value |-> ""]
TimerFor(text) == [on |-> TRUE, value |-> text]

CardIdle ==
    /\ cardLiked = FALSE /\ isLiking = FALSE /\ likeOp = "none"
    /\ cardReloads = << >> /\ toggled = 0 /\ clicks = 0 /\ cardPost = 1
    /\ ownPost = FALSE /\ cardFaults = 0

SearchIdle ==
    /\ searchQuery = "" /\ debouncedSearch = "" /\ debounceTimer = TimerOff
    /\ viewMode = "list" /\ searchRuns = << >> /\ edits = 0

\* ---------------------------------------------- the batch planner on its own
InitPlan ==
    /\ \E n \in 0..MaxIds : planIds = [k \in 1..n |-> k]
    /\ planUrlLen \in BaseUrlLens
    /\ planPc = "size"
    /\ planSize = 0
    /\ planChunks = << >>
    /\ EnvIdle
    /\ BulkIdle
    /\ MapIdleState
    /\ CacheIdle
    /\ ListIdle
    /\ CardIdle
    /\ SearchIdle

PlanSize ==
    /\ planPc = "size"
    /\ planSize' = getSafeBatchSize(planIds, planUrlLen)
    /\ planPc' = "chunk"
    /\ UNCHANGED << planIds, planUrlLen, planChunks, envVars, bulkVars, mapVars, cacheVars, listVars, cardVars, searchVars >>

PlanChunk ==
    /\ planPc = "chunk"
    /\ chunkArrayTerminates(planIds, planSize)
    /\ planChunks' = chunkArray(planIds, planSize)
    /\ planPc' = "done"
    /\ UNCHANGED << planIds, planUrlLen, planSize, envVars, bulkVars, mapVars, cacheVars, listVars, cardVars, searchVars >>

\* chunkSize <= 0 on a non-empty array: the loop of chunkArray never ends
PlanDiverge ==
    /\ planPc = "chunk"
    /\ ~chunkArrayTerminates(planIds, planSize)
    /\ planPc' = "diverged"
    /\ UNCHANGED << planIds, planUrlLen, planSize, planChunks, envVars, bulkVars, mapVars, cacheVars, listVars, cardVars, searchVars >>

NextPlan == PlanSize \/ PlanChunk \/ PlanDiverge

SpecPlan == InitPlan /\ [][NextPlan]_vars


\* ------------------------------------------------------ loadPostsWithCounts
\* The query builders of supabase-js are thenables: a request is sent when the
\* builder is first awaited, which for the like and comment builders is the
\* Promise.all(batch) of their wave and for the viewer-like builders the single
\* Promise.all over all chunks.
InitBulk ==
    /\ EnvInit
    /\ baseUrlLen \in BaseUrlLens
    /\ pc = "query"
    /\ postsData = << >>
    /\ queryError = FALSE
    /\ safeBatchSize = 0
    /\ postIdChunks = << >>
    /\ i = 0
    /\ req = [k \in Kinds |-> << >>]
    /\ resp = [k \in Kinds |-> << >>]
    /\ faults = 0
    /\ allLikesData = << >>
    /\ allCommentsData = << >>
    /\ userLikes = << >>
    /\ result = << >>
    /\ batchPromises = [k \in {"likes", "comments"} |-> << >>]
    /\ PlanIdle
    /\ MapIdleState
    /\ CacheIdle
    /\ ListIdle
    /\ CardIdle
    /\ SearchIdle

\* the primary query answers with n posts, newest first
PrimaryRespond ==
    /\ pc = "query"
    /\ \E n \in 0..MaxPosts :
          /\ postsData' = [k \in 1..n |-> [id |-> k]]
          /\ IF n = 0 THEN /\ pc' = "done"
                           /\ result' = << >>
                      ELSE /\ pc' = "plan"
                           /\ UNCHANGED result
    /\ UNCHANGED << baseUrlLen, batchPromises, likes, comments, user, queryError, safeBatchSize,
                    postIdChunks, i, req, resp, faults, allLikesData,
                    allCommentsData, userLikes, planVars, mapVars, cacheVars, listVars, cardVars, searchVars >>

\* the primary query answers with an error, or its request rejects: both are
\* thrown into the catch block, which logs and returns []
PrimaryFail ==
    /\ pc = "query"
    /\ queryError' = TRUE
    /\ pc' = "done"
    /\ result' = << >>
    /\ UNCHANGED << baseUrlLen, batchPromises, likes, comments, user, postsData, safeBatchSize,
                    postIdChunks, i, req, resp, faults, allLikesData,
                    allCommentsData, userLikes, planVars, mapVars, cacheVars, listVars, cardVars, searchVars >>

postIdsOf(posts) == [k \in 1..Len(posts) |-> posts[k].id]

Plan ==
    /\ pc = "plan"
    /\ LET postIds == postIdsOf(postsData)
           size == getSafeBatchSize(postIds, baseUrlLen)
       IN  /\ safeBatchSize' = size
           /\ IF chunkArrayTerminates(postIds, size)
              THEN /\ postIdChunks' = chunkArray(postIds, size)
                   /\ req' = [k \in Kinds |-> [c \in 1..Len(postIdChunks') |-> "idle"]]
                   /\ resp' = [k \in Kinds |-> [c \in 1..Len(postIdChunks') |-> << >>]]
                   /\ pc' = "likes_loop"
                   /\ UNCHANGED result
              ELSE \* the loop of chunkArray does not end: the call hangs, or the
                   \* array outgrows its length limit and the RangeError is caught
                   /\ \/ pc' = "diverged" /\ UNCHANGED result
                      \/ pc' = "done" /\ result' = << >>
                   /\ UNCHANGED << postIdChunks, req, resp >>
    /\ UNCHANGED << baseUrlLen, batchPromises, likes, comments, user, postsData, queryError, i,
                    faults, allLikesData, allCommentsData, userLikes, planVars, mapVars, cacheVars, listVars, cardVars, searchVars >>

\* a wave that takes one chunk more than the concurrency
WaveWide(from, len) == {c \in 1..len : from < c /\ c <= from + WaveSize + 1}

\* the chunk indexes (1-based) of  promises.slice(from, from + 3)
Wave(from, len) == {c \in 1..len : from < c /\ c <= from + WaveSize}

\* The body of  for (let i = 0; i < n; i += 3) { push(Promise.all(slice(i, i+3)));
\* if (i > 0) await delay }  run from index `from` up to its next await: the
\* waves it pushes, the index it stops at and whether it stops at the delay.
RECURSIVE loopRun(_, _)
loopRun(from, len) ==
    IF from >= len THEN [waves |-> << >>, at |-> from, wait |-> FALSE]
    ELSE IF from > 0 THEN [waves |-> << Wave(from, len) >>, at |-> from, wait |-> TRUE]
    ELSE LET rest == loopRun(from + WaveSize, len)
         IN  [waves |-> << Wave(from, len) >> \o rest.waves,
              at |-> rest.at, wait |-> rest.wait]

Dispatch(kind, chunks) ==
    req' = [req EXCEPT ![kind] =
               [c \in DOMAIN req[kind] |-> IF c \in chunks THEN "pending" ELSE req[kind][c]]]

RunLoop(kind, from, delayPc, awaitPc) ==
    LET run == loopRun(from, Len(postIdChunks))
    IN  /\ Dispatch(kind, UNION SeqRange(run.waves))
        /\ batchPromises' = [batchPromises EXCEPT ![kind] = @ \o run.waves]
        /\ i' = run.at
        /\ pc' = IF run.wait THEN delayPc ELSE awaitPc

LikesLoop ==
    /\ pc = "likes_loop"
    /\ RunLoop("likes", 0, "likes_delay", "likes_await")
    /\ UNCHANGED << baseUrlLen, likes, comments, user, postsData, queryError,
                    safeBatchSize, postIdChunks, resp, faults, allLikesData,
                    allCommentsData, userLikes, result, planVars, mapVars, cacheVars, listVars, cardVars, searchVars >>

\* setTimeout(resolve, 50) fires: i += 3 and the loop goes on
LikesDelay ==
    /\ pc = "likes_delay"
    /\ RunLoop("likes", i + WaveSize, "likes_delay", "likes_await")
    /\ UNCHANGED << baseUrlLen, likes, comments, user, postsData, queryError,
                    safeBatchSize, postIdChunks, resp, faults, allLikesData,
                    allCommentsData, userLikes, result, planVars, mapVars, cacheVars, listVars, cardVars, searchVars >>

Settled(status) == status \in {"ok", "error", "rejected"}
AnyRejected(kind) == \E c \in DOMAIN req[kind] : req[kind][c] = "rejected"
AllSettled(kind) == \A c \in DOMAIN req[kind] : Settled(req[kind][c])

\* .flat().flatMap(result => result.data || [])
\* a merge that keeps the rows of the first chunk only
collectFirst(kind) == IF resp[kind] = << >> THEN << >> ELSE Head(resp[kind])

collect(kind) == Flat(resp[kind])

\* await Promise.all(batchPromises): rejects with the first rejected request
LikesAwait ==
    /\ pc = "likes_await"
    /\ \/ /\ AnyRejected("likes")
          /\ pc' = "done"
          /\ result' = << >>
          /\ UNCHANGED allLikesData
       \/ /\ ~AnyRejected("likes")
          /\ AllSettled("likes")
          /\ allLikesData' = collect("likes")
          /\ pc' = "comments_loop"
          /\ UNCHANGED result
    /\ UNCHANGED << baseUrlLen, batchPromises, likes, comments, user, postsData, queryError,
                    safeBatchSize, postIdChunks, i, req, resp, faults,
                    allCommentsData, userLikes, planVars, mapVars, cacheVars, listVars, cardVars, searchVars >>

CommentsLoop ==
    /\ pc = "comments_loop"
    /\ RunLoop("comments", 0, "comments_delay", "comments_await")
    /\ UNCHANGED << baseUrlLen, likes, comments, user, postsData, queryError,
                    safeBatchSize, postIdChunks, resp, faults, allLikesData,
                    allCommentsData, userLikes, result, planVars, mapVars, cacheVars, listVars, cardVars, searchVars >>

CommentsDelay ==
    /\ pc = "comments_delay"
    /\ RunLoop("comments", i + WaveSize, "comments_delay", "comments_await")
    /\ UNCHANGED << baseUrlLen, likes, comments, user, postsData, queryError,
                    safeBatchSize, postIdChunks, resp, faults, allLikesData,
                    allCommentsData, userLikes, result, planVars, mapVars, cacheVars, listVars, cardVars, searchVars >>

CommentsAwait ==
    /\ pc = "comments_await"
    /\ \/ /\ AnyRejected("comments")
          /\ pc' = "done"
          /\ result' = << >>
          /\ UNCHANGED allCommentsData
       \/ /\ ~AnyRejected("comments")
          /\ AllSettled("comments")
          /\ allCommentsData' = collect("comments")
          /\ pc' = "user_likes"
          /\ UNCHANGED result
    /\ UNCHANGED << baseUrlLen, batchPromises, likes, comments, user, postsData, queryError,
                    safeBatchSize, postIdChunks, i, req, resp, faults,
                    allLikesData, userLikes, planVars, mapVars, cacheVars, listVars, cardVars, searchVars >>

\* if (user) { ... await Promise.all(userLikesPromises) } over every chunk
UserLikesStart ==
    /\ pc = "user_likes"
    /\ IF user # NoUser
       THEN /\ Dispatch("userLikes", DOMAIN req["userLikes"])
            /\ pc' = "user_await"
       ELSE /\ pc' = "compose"
            /\ UNCHANGED req
    /\ UNCHANGED << baseUrlLen, batchPromises, likes, comments, user, postsData, queryError,
                    safeBatchSize, postIdChunks, i, resp, faults, allLikesData,
                    allCommentsData, userLikes, result, planVars, mapVars, cacheVars, listVars, cardVars, searchVars >>

UserLikesAwait ==
    /\ pc = "user_await"
    /\ \/ /\ AnyRejected("userLikes")
          /\ pc' = "done"
          /\ result' = << >>
          /\ UNCHANGED userLikes
       \/ /\ ~AnyRejected("userLikes")
          /\ AllSettled("userLikes")
          /\ userLikes' = collect("userLikes")
          /\ pc' = "compose"
          /\ UNCHANGED result
    /\ UNCHANGED << baseUrlLen, batchPromises, likes, comments, user, postsData, queryError,
                    safeBatchSize, postIdChunks, i, req, resp, faults,
                    allLikesData, allCommentsData, planVars, mapVars, cacheVars, listVars, cardVars, searchVars >>

\* a merge that also stores the counts it computed in countsCache
ComposeWarmsCache ==
    /\ pc = "compose"
    /\ result' = annotate(postsData, allLikesData, allCommentsData, userLikes)
    /\ pc' = "done"
    /\ countsCache' = [p \in DOMAIN countsCache \cup {1} |->
                          [data |-> [likes_count |-> result'[1].likes_count,
                                     comments_count |-> result'[1].comments_count],
                           timestamp |-> now, storedAt |-> now]]
    /\ UNCHANGED << baseUrlLen, batchPromises, likes, comments, user, postsData, queryError,
                    safeBatchSize, postIdChunks, i, req, resp, faults,
                    allLikesData, allCommentsData, userLikes, planVars, mapVars,
                    now, ticks, calls, callsMade, lastReturn, cacheFaults,
                    listVars, cardVars, searchVars >>

Compose ==
    /\ pc = "compose"
    /\ result' = annotate(postsData, allLikesData, allCommentsData, userLikes)
    /\ pc' = "done"
    /\ UNCHANGED << baseUrlLen, batchPromises, likes, comments, user, postsData, queryError,
                    safeBatchSize, postIdChunks, i, req, resp, faults,
                    allLikesData, allCommentsData, userLikes, planVars, mapVars, cacheVars, listVars, cardVars, searchVars >>

\* what the store answers to the request of a kind for a chunk
answer(kind, chunk) ==
    CASE kind = "likes" -> SelectIn(likes, chunk)
      [] kind = "comments" -> SelectIn(comments, chunk)
      [] kind = "userLikes" -> SelectEqIn(likes, user, chunk)

Settle(kind, c, status, data) ==
    /\ req' = [req EXCEPT ![kind][c] = status]
    /\ resp' = [resp EXCEPT ![kind][c] = data]

\* a request in flight resolves with { data, error: null }
RespondOk ==
    /\ \E kind \in Kinds : \E c \in DOMAIN req[kind] :
          /\ req[kind][c] = "pending"
          /\ Settle(kind, c, "ok", answer(kind, postIdChunks[c]))
    /\ UNCHANGED << baseUrlLen, batchPromises, likes, comments, user, pc, postsData, queryError,
                    safeBatchSize, postIdChunks, i, faults, allLikesData,
                    allCommentsData, userLikes, result, planVars, mapVars, cacheVars, listVars, cardVars, searchVars >>

\* a request in flight resolves with { data: null, error }
RespondError ==
    /\ faults < MaxFaults
    /\ \E kind \in Kinds : \E c \in DOMAIN req[kind] :
          /\ req[kind][c] = "pending"
          /\ Settle(kind, c, "error", << >>)
    /\ faults' = faults + 1
    /\ UNCHANGED << baseUrlLen, batchPromises, likes, comments, user, pc, postsData, queryError,
                    safeBatchSize, postIdChunks, i, allLikesData,
                    allCommentsData, userLikes, result, planVars, mapVars, cacheVars, listVars, cardVars, searchVars >>

\* the promise of a request in flight rejects
RespondReject ==
    /\ faults < MaxFaults
    /\ \E kind \in Kinds : \E c \in DOMAIN req[kind] :
          /\ req[kind][c] = "pending"
          /\ Settle(kind, c, "rejected", << >>)
    /\ faults' = faults + 1
    /\ UNCHANGED << baseUrlLen, batchPromises, likes, comments, user, pc, postsData, queryError,
                    safeBatchSize, postIdChunks, i, allLikesData,
                    allCommentsData, userLikes, result, planVars, mapVars, cacheVars, listVars, cardVars, searchVars >>

Next ==
    \/ PrimaryRespond \/ PrimaryFail \/ Plan
    \/ LikesLoop \/ LikesDelay \/ LikesAwait
    \/ CommentsLoop \/ CommentsDelay \/ CommentsAwait
    \/ UserLikesStart \/ UserLikesAwait \/ Compose
    \/ RespondOk \/ RespondError \/ RespondReject

Spec == InitBulk /\ [][Next]_vars

InFlight == Cardinality({kc \in Kinds \X (1..Len(postIdChunks)) : req[kc[1]][kc[2]] = "pending"})


\* ------------------------------------------------- Map.loadPostsInArea
\* the posts table seen by the map: post k lies at latitude k, longitude k
\* posts 1..3 lie apart on the diagonal, the others share one place: a
\* viewport over it holds more posts than one request may name
MapStorePosts == 1..(3 + MAX_BATCH_SIZE + 1)
PostLat(id) == IF id <= 3 THEN id ELSE 5
PostLng(id) == IF id <= 3 THEN id ELSE 5

RECURSIVE IdsInOrder(_)
IdsInOrder(ids) ==
    IF ids = {} THEN << >>
    ELSE LET first == CHOOSE a \in ids : \A b \in ids : a <= b
         IN  << first >> \o IdsInOrder(ids \ {first})

\* .gte("latitude", sw.lat()).lte("latitude", ne.lat())
\* .gte("longitude", sw.lng()).lte("longitude", ne.lng()).order("created_at")
PostsInBounds(ne, sw) ==
    LET ids == IdsInOrder({id \in MapStorePosts :
                              /\ PostLat(id) >= sw.lat /\ PostLat(id) <= ne.lat
                              /\ PostLng(id) >= sw.lng /\ PostLng(id) <= ne.lng})
    IN  [k \in 1..Len(ids) |-> [id |-> ids[k]]]

InitMap ==
    /\ EnvInit
    /\ map = "null"
    /\ mapBounds \in Boxes
    /\ loads = << >>
    /\ mapPosts = << >>
    /\ mapFaults = 0
    /\ idleEvents = 0
    /\ BulkIdle
    /\ PlanIdle
    /\ CacheIdle
    /\ ListIdle
    /\ CardIdle
    /\ SearchIdle

\* onLoad: setMap(map)
OnLoad ==
    /\ map = "null"
    /\ map' = "loaded"
    /\ UNCHANGED << mapBounds, loads, mapPosts, mapFaults, idleEvents, envVars, bulkVars, planVars, cacheVars, listVars, cardVars, searchVars >>

\* The map settles on a viewport and fires idle: onMapIdle calls
\* loadPostsInArea, which returns at once while the map state is null and
\* otherwise reads the bounds and sends the posts query.
MapIdle ==
    /\ Len(loads) < MaxLoads
    /\ idleEvents <= MaxLoads
    /\ idleEvents' = idleEvents + 1
    /\ \E box \in Boxes :
          /\ mapBounds' = box
          /\ IF map = "null"
             THEN UNCHANGED loads
             ELSE loads' = Append(loads, [ne |-> box.ne, sw |-> box.sw, step |-> "posts",
                                          postsData |-> << >>, likesData |-> NullData,
                                          commentsData |-> NullData])
    /\ UNCHANGED << map, mapPosts, mapFaults, envVars, bulkVars, planVars, cacheVars, listVars, cardVars, searchVars >>

\* the posts query of a load answers with rows
LoadPostsRespond ==
    /\ \E l \in DOMAIN loads :
          /\ loads[l].step = "posts"
          /\ LET data == PostsInBounds(loads[l].ne, loads[l].sw)
             IN  IF data = << >>
                 THEN /\ mapPosts' = << >>
                      /\ loads' = [loads EXCEPT ![l].step = "applied"]
                 ELSE /\ loads' = [loads EXCEPT ![l].step = "likes", ![l].postsData = data]
                      /\ UNCHANGED mapPosts
    /\ UNCHANGED << map, mapBounds, idleEvents, mapFaults, envVars, bulkVars, planVars, cacheVars, listVars, cardVars, searchVars >>

\* the posts query answers with an error (logged, return) or any request of the
\* load rejects (caught, logged): the load ends without touching the posts
LoadFail ==
    /\ mapFaults < MaxFaults
    /\ \E l \in DOMAIN loads :
          /\ loads[l].step \in {"posts", "likes", "comments", "userLikes"}
          /\ loads' = [loads EXCEPT ![l].step = "failed"]
    /\ mapFaults' = mapFaults + 1
    /\ UNCHANGED << map, mapBounds, idleEvents, mapPosts, envVars, bulkVars, planVars, cacheVars, listVars, cardVars, searchVars >>

LoadLikesRespond ==
    /\ \E l \in DOMAIN loads :
          /\ loads[l].step = "likes"
          /\ \/ /\ loads' = [loads EXCEPT ![l].step = "comments", ![l].likesData =
                                Data(SelectIn(likes, postIdsOf(loads[l].postsData)))]
                /\ UNCHANGED mapFaults
             \/ /\ mapFaults < MaxFaults
                /\ loads' = [loads EXCEPT ![l].step = "comments", ![l].likesData = NullData]
                /\ mapFaults' = mapFaults + 1
    /\ UNCHANGED << map, mapBounds, idleEvents, mapPosts, envVars, bulkVars, planVars, cacheVars, listVars, cardVars, searchVars >>

LoadCommentsRespond ==
    /\ \E l \in DOMAIN loads :
          /\ loads[l].step = "comments"
          /\ \E data \in {Data(SelectIn(comments, postIdsOf(loads[l].postsData))), NullData} :
                /\ mapFaults' = IF data.isNull THEN mapFaults + 1 ELSE mapFaults
                /\ mapFaults' <= MaxFaults
                /\ IF user # NoUser
                   THEN /\ loads' = [loads EXCEPT ![l].step = "userLikes", ![l].commentsData = data]
                        /\ UNCHANGED mapPosts
                   ELSE /\ loads' = [loads EXCEPT ![l].step = "applied", ![l].commentsData = data]
                        /\ mapPosts' = annotate(loads[l].postsData, orEmpty(loads[l].likesData),
                                                orEmpty(data), << >>)
    /\ UNCHANGED << map, mapBounds, idleEvents, envVars, bulkVars, planVars, cacheVars, listVars, cardVars, searchVars >>

LoadUserLikesRespond ==
    /\ \E l \in DOMAIN loads :
          /\ loads[l].step = "userLikes"
          /\ \E data \in {Data(SelectEqIn(likes, user, postIdsOf(loads[l].postsData))), NullData} :
                /\ mapFaults' = IF data.isNull THEN mapFaults + 1 ELSE mapFaults
                /\ mapFaults' <= MaxFaults
                /\ loads' = [loads EXCEPT ![l].step = "applied"]
                /\ mapPosts' = annotate(loads[l].postsData, orEmpty(loads[l].likesData),
                                        orEmpty(loads[l].commentsData), orEmpty(data))
    /\ UNCHANGED << map, mapBounds, idleEvents, envVars, bulkVars, planVars, cacheVars, listVars, cardVars, searchVars >>

\* the post whose like button the viewer uses while the map loads
TogglePosts == {3}

\* toggleLike of a PostCard shown to the viewer (on this or another device)
\* while post.is_liked is false: insert({ user_id, post_id })
InsertLike ==
    /\ user # NoUser
    /\ \E postId \in TogglePosts :
          /\ ~\E r \in likes : r.post_id = postId /\ r.user_id = user
          /\ likes' = likes \cup {Row(100 + postId, postId, user)}
    /\ UNCHANGED << comments, user, mapVars, bulkVars, planVars, cacheVars, listVars, cardVars, searchVars >>

\* toggleLike while post.is_liked is true: delete().eq(user_id).eq(post_id)
DeleteLike ==
    /\ user # NoUser
    /\ \E postId \in TogglePosts :
          /\ \E r \in likes : r.post_id = postId /\ r.user_id = user
          /\ likes' = {r \in likes : ~(r.post_id = postId /\ r.user_id = user)}
    /\ UNCHANGED << comments, user, mapVars, bulkVars, planVars, cacheVars, listVars, cardVars, searchVars >>

NextMap ==
    \/ OnLoad \/ MapIdle \/ LoadPostsRespond \/ LoadFail
    \/ LoadLikesRespond \/ LoadCommentsRespond \/ LoadUserLikesRespond
    \/ InsertLike \/ DeleteLike

SpecMap == InitMap /\ [][NextMap]_vars


\* ------------------------------------------------- getCachedPostCounts
CachePosts == {1}
TickSteps == {1, 29999}

\* a cache that treats every entry it holds as fresh
neverExpires(cached, t) == cached # << >>

\* cached && now - cached.timestamp < CACHE_DURATION ; cached is << >> for
\* undefined and << entry >> for an entry
isFresh(cached, t) == cached # << >> /\ t - cached[1].timestamp < CACHE_DURATION

\* countsCache.get(postId)
cacheGet(postId) == IF postId \in DOMAIN countsCache THEN << countsCache[postId] >> ELSE << >>

Pending == [state |-> "pending", count |-> 0]
Counts(l, c) == [likes_count |-> l, comments_count |-> c]

\* .select("id", { count: "exact", head: true }).eq("post_id", postId)
countExact(table, postId) == Cardinality({r \in table : r.post_id = postId})

InitCache ==
    /\ likes = FewLikes
    /\ comments = OneComment
    /\ user = NoUser
    /\ now = 0
    /\ ticks = 0
    /\ countsCache = << >>
    /\ calls = << >>
    /\ callsMade = 0
    /\ lastReturn = << >>
    /\ cacheFaults = 0
    /\ BulkIdle
    /\ PlanIdle
    /\ MapIdleState
    /\ ListIdle
    /\ CardIdle
    /\ SearchIdle

\* what the latest call to return handed back to its caller
Return(postId, counts) == << [postId |-> postId, returned |-> counts] >>

\* getCachedPostCounts(postId) up to its return or its await: a fresh entry is
\* returned, otherwise getPostCounts sends the two count queries
CacheCall ==
    /\ callsMade < MaxCalls
    /\ callsMade' = callsMade + 1
    /\ \E postId \in CachePosts :
          LET cached == cacheGet(postId)
          IN  IF isFresh(cached, now)
              THEN /\ lastReturn' = Return(postId, cached[1].data)
                   /\ UNCHANGED calls
              ELSE /\ calls' = Append(calls,
                          [postId |-> postId, now |-> now,
                           likesResult |-> Pending, commentsResult |-> Pending])
                   /\ UNCHANGED lastReturn
    /\ UNCHANGED << now, ticks, countsCache, cacheFaults,
                    envVars, bulkVars, planVars, mapVars, listVars, cardVars, searchVars >>

RemoveAt(seq, k) == [j \in 1..(Len(seq) - 1) |-> IF j < k THEN seq[j] ELSE seq[j + 1]]

\* getPostCounts returns counts and getCachedPostCounts resumes: the entry is
\* set with the timestamp read when the call began, and the counts returned.
\* storedAt is the time of the set itself; the code does not keep it, the
\* claims about the cache need it.
Resume(k, counts) ==
    /\ countsCache' = [p \in DOMAIN countsCache \cup {calls[k].postId} |->
                          IF p = calls[k].postId
                          THEN [data |-> counts, timestamp |-> calls[k].now, storedAt |-> now]
                          ELSE countsCache[p]]
    /\ lastReturn' = Return(calls[k].postId, counts)
    /\ calls' = RemoveAt(calls, k)

\* likesResult.count || 0 : count is null in an error result
countOrZero(res) == IF res.state = "ok" THEN res.count ELSE 0

\* one of the two count queries of a call answers, with a count or an error
CountRespond ==
    /\ \E k \in DOMAIN calls : \E which \in {"likesResult", "commentsResult"} :
          /\ calls[k][which].state = "pending"
          /\ \E res \in {[state |-> "ok",
                          count |-> countExact(IF which = "likesResult" THEN likes ELSE comments,
                                               calls[k].postId)],
                         [state |-> "error", count |-> 0]} :
                /\ cacheFaults' = IF res.state = "error" THEN cacheFaults + 1 ELSE cacheFaults
                /\ cacheFaults' <= MaxFaults
                /\ LET answered == [calls[k] EXCEPT ![which] = res]
                   IN  IF answered.likesResult.state # "pending"
                          /\ answered.commentsResult.state # "pending"
                       THEN Resume(k, Counts(countOrZero(answered.likesResult),
                                             countOrZero(answered.commentsResult)))
                       ELSE /\ calls' = [calls EXCEPT ![k] = answered]
                            /\ UNCHANGED << countsCache, lastReturn >>
    /\ UNCHANGED << now, ticks, callsMade, envVars, bulkVars, planVars, mapVars, listVars, cardVars, searchVars >>

\* one of the two count queries rejects: Promise.all rejects and the catch
\* block of getPostCounts returns { likes_count: 0, comments_count: 0 }
CountReject ==
    /\ cacheFaults < MaxFaults
    /\ \E k \in DOMAIN calls : \E which \in {"likesResult", "commentsResult"} :
          /\ calls[k][which].state = "pending"
          /\ Resume(k, Counts(0, 0))
    /\ cacheFaults' = cacheFaults + 1
    /\ UNCHANGED << now, ticks, callsMade, envVars, bulkVars, planVars, mapVars, listVars, cardVars, searchVars >>

\* time passes
Tick ==
    /\ ticks < MaxTicks
    /\ \E d \in TickSteps : now' = now + d
    /\ ticks' = ticks + 1
    /\ UNCHANGED << countsCache, calls, callsMade, lastReturn, cacheFaults,
                    envVars, bulkVars, planVars, mapVars, listVars, cardVars, searchVars >>

\* another user, who has not liked the post yet, likes it
StoreLike ==
    /\ \E postId \in CachePosts :
          /\ ~\E r \in likes : r.post_id = postId /\ r.user_id = "v3"
          /\ likes' = likes \cup {Row(100 + postId, postId, "v3")}
    /\ UNCHANGED << comments, user, now, ticks, countsCache, calls, callsMade, lastReturn,
                    cacheFaults, bulkVars, planVars, mapVars, listVars, cardVars, searchVars >>

NextCache == CacheCall \/ CountRespond \/ CountReject \/ Tick \/ StoreLike

SpecCache == InitCache /\ [][NextCache]_vars

\* ------------------------------------------ HomePageContent in list mode
\* The page is opened with mode=list and the session has resolved, so user is
\* set (no load is started without one). React state is modelled as rendered:
\* a handler's updates are committed when it ends, unless the passive effect
\* of the previous commit has not run yet; then the effect is flushed first
\* and the commit follows it. At most one state-changing callback runs between
\* a commit and the flush of its effect.
PageSize == 10

\* sizes of the posts table: no post, one short page, one full page, pages
\* of 10, 10 and 4
ListTotals == {0, 4, 10, 24}

\* .order("created_at", { ascending: false }): the post at offset k has id k + 1
PostsNewestFirst(total) == [k \in 1..total |-> [id |-> k]]

\* .range(from, to): the rows at offsets from..to, both inclusive
Range(rows, from, to) ==
    LET hi == Min2(to + 1, Len(rows))
    IN  IF from >= hi THEN << >> ELSE [k \in 1..(hi - from) |-> rows[from + k]]

getOptimizedPosts(pageNum, limit) ==
    LET offset == pageNum * limit
    IN  Range(PostsNewestFirst(listTotal), offset, offset + limit - 1)

\* a scroll trigger that starts a load whenever none is running
loadMoreRunsAlways(isLoading, more) == ~isLoading

\* the observer's  isIntersecting && hasMore  and loadMore's
\* !loading && hasMore && viewMode === "list"
loadMoreRuns(isLoading, more) == more /\ (~isLoading /\ more)

InitList ==
    /\ likes = FewLikes
    /\ comments = OneComment
    /\ user = "v1"
    /\ listTotal \in ListTotals
    /\ listPosts = << >>
    /\ loading = TRUE
    /\ hasMore = TRUE
    /\ page = 0
    /\ error = FALSE
    /\ listLoads = << >>
    /\ listCalls = 0
    /\ lastDone = NoneDone
    /\ lastAppend = NoneDone
    /\ effectPending = "mount"
    /\ renderedLoading = TRUE
    /\ slipped = FALSE
    /\ triggers = << >>
    /\ listFaults = 0
    /\ BulkIdle
    /\ PlanIdle
    /\ MapIdleState
    /\ CacheIdle
    /\ CardIdle
    /\ SearchIdle

NewLoad(pageNum, reset) ==
    [pageNum |-> pageNum, reset |-> reset, step |-> "posts",
     postsData |-> << >>, likesData |-> NullData, commentsData |-> NullData]

\* The calls in flight are kept in a fixed order: each of them resumes on its
\* own, and the order in which they were made has no effect on any of them.
loadRank(load) ==
    (IF load.reset THEN 0 ELSE 1000) + 100 * load.pageNum
    + (CASE load.step = "posts" -> 0 [] load.step = "stats" -> 10 [] OTHER -> 20)
    + (IF load.likesData.isNull THEN 0 ELSE 2)
    + (IF load.commentsData.isNull THEN 0 ELSE 1)

RECURSIVE withLoad(_, _)
withLoad(inFlight, load) ==
    IF inFlight = << >> THEN << load >>
    ELSE IF loadRank(load) <= loadRank(Head(inFlight))
         THEN << load >> \o inFlight
         ELSE << Head(inFlight) >> \o withLoad(Tail(inFlight), load)

\* React commits the updates: loadRecentPosts is re-created when loading has
\* changed (useCallback deps [user, loading]), and the initial-load effect,
\* which depends on loadRecentPosts, is scheduled again
Commit ==
    /\ effectPending' = IF loading' # renderedLoading THEN "reload" ELSE "none"
    /\ renderedLoading' = loading'
    /\ slipped' = FALSE

\* a callback has updated state: commit, or wait for the pending effect
AfterHandler ==
    IF effectPending = "none"
    THEN Commit
    ELSE /\ slipped' = TRUE
         /\ UNCHANGED << effectPending, renderedLoading >>

\* a reset that leaves the page index where it is
StartResetKeepsPage(n) ==
    /\ loading' = TRUE
    /\ error' = FALSE
    /\ page' = page
    /\ hasMore' = TRUE
    /\ listLoads' = IF n = 1 THEN withLoad(listLoads, NewLoad(0, TRUE))
                     ELSE withLoad(withLoad(listLoads, NewLoad(0, TRUE)), NewLoad(0, TRUE))
    /\ listCalls' = listCalls + n

\* loadRecentPosts(0, true) up to its await
StartReset(n) ==
    /\ loading' = TRUE
    /\ error' = FALSE
    /\ page' = 0
    /\ hasMore' = TRUE
    /\ listLoads' = IF n = 1 THEN withLoad(listLoads, NewLoad(0, TRUE))
                     ELSE withLoad(withLoad(listLoads, NewLoad(0, TRUE)), NewLoad(0, TRUE))
    /\ listCalls' = listCalls + n

\* after mount the view-mode effect and the initial-load effect both call
\* loadRecentPosts(0, true)
MountEffects ==
    /\ effectPending = "mount"
    /\ listCalls + 2 <= MaxListLoads
    /\ StartReset(2)
    /\ Commit
    /\ UNCHANGED << listTotal, listPosts, triggers, listFaults, lastDone, lastAppend,
                    envVars, bulkVars, planVars, mapVars, cacheVars, cardVars, searchVars >>

\* useEffect(() => { if (!authLoading && user) loadRecentPosts(0, true) },
\*           [authLoading, user, loadRecentPosts])  runs again
InitialLoadEffect ==
    /\ effectPending = "reload"
    /\ listCalls < MaxListLoads
    /\ StartReset(1)
    /\ Commit
    /\ UNCHANGED << listTotal, listPosts, triggers, listFaults, lastDone, lastAppend,
                    envVars, bulkVars, planVars, mapVars, cacheVars, cardVars, searchVars >>

\* onUpdate of a PostCard, handlePostCreated, the retry button
ResetTrigger ==
    /\ effectPending # "mount"
    /\ ~slipped
    /\ listCalls < MaxListLoads
    /\ StartReset(1)
    /\ AfterHandler
    /\ UNCHANGED << listTotal, listPosts, triggers, listFaults, lastDone, lastAppend,
                    envVars, bulkVars, planVars, mapVars, cacheVars, cardVars, searchVars >>

\* The IntersectionObserver of the last post reports it visible. The observer
\* exists when the last commit had loading false and rendered a post; its
\* callback and loadMore see the state of that commit.
LoadMore ==
    /\ effectPending # "mount"
    /\ ~slipped
    /\ renderedLoading = FALSE
    /\ listPosts # << >>
    /\ Len(triggers) < MaxScrolls
    /\ triggers' = Append(triggers, [hasMore |-> hasMore, loading |-> loading,
                                     after |-> lastAppend.outcome])
    /\ IF loadMoreRuns(loading, hasMore)
       THEN /\ listCalls < MaxListLoads
            /\ page' = page + 1
            /\ loading' = TRUE
            /\ listLoads' = withLoad(listLoads, NewLoad(page + 1, FALSE))
            /\ listCalls' = listCalls + 1
            /\ AfterHandler
            /\ UNCHANGED << hasMore, error >>
       ELSE UNCHANGED << page, loading, listLoads, listCalls, hasMore, error,
                         effectPending, renderedLoading, slipped >>
    /\ UNCHANGED << listTotal, listPosts, listFaults, lastDone, lastAppend,
                    envVars, bulkVars, planVars, mapVars, cacheVars, cardVars, searchVars >>

\* the call has returned: what it was for, how it ended and the rows of its page
Finished(load, outcome) ==
    [pageNum |-> load.pageNum, reset |-> load.reset, outcome |-> outcome,
     rows |-> Len(load.postsData)]

\* the call that returned is remembered, and apart if loadMore made it
Returned(load, outcome) ==
    /\ lastDone' = Finished(load, outcome)
    /\ lastAppend' = IF load.reset THEN lastAppend ELSE Finished(load, outcome)

\* getOptimizedPosts answers with rows
ListPostsRespond ==
    /\ \E l \in DOMAIN listLoads :
          /\ listLoads[l].step = "posts"
          /\ LET data == getOptimizedPosts(listLoads[l].pageNum, PageSize)
             IN  IF Len(data) > 0
                 THEN /\ listLoads' = withLoad(RemoveAt(listLoads, l),
                                 [listLoads[l] EXCEPT !.step = "stats", !.postsData = data])
                      /\ UNCHANGED << listPosts, hasMore, loading, lastDone, lastAppend,
                                      effectPending, renderedLoading, slipped >>
                 ELSE /\ ~slipped
                      /\ listPosts' = IF listLoads[l].reset THEN << >> ELSE listPosts
                      /\ hasMore' = FALSE
                      /\ loading' = FALSE
                      /\ listLoads' = RemoveAt(listLoads, l)
                      /\ Returned(listLoads[l], "applied")
                      /\ AfterHandler
    /\ UNCHANGED << listTotal, page, error, triggers, listFaults, listCalls,
                    envVars, bulkVars, planVars, mapVars, cacheVars, cardVars, searchVars >>

\* getOptimizedPosts answers with an error, or a request of the load rejects:
\* the catch block sets the error and the finally block clears loading
ListFail ==
    /\ ~slipped
    /\ listFaults < MaxFaults
    /\ \E l \in DOMAIN listLoads :
          /\ listLoads' = RemoveAt(listLoads, l)
          /\ Returned(listLoads[l], "failed")
    /\ error' = TRUE
    /\ loading' = FALSE
    /\ listFaults' = listFaults + 1
    /\ AfterHandler
    /\ UNCHANGED << listTotal, listPosts, hasMore, page, triggers, listCalls,
                    envVars, bulkVars, planVars, mapVars, cacheVars, cardVars, searchVars >>

\* getPostStats: Promise.all of the like-rows and the comment-rows query, each
\* answering with rows or with an error (data null)
ListStatsRespond ==
    /\ \E l \in DOMAIN listLoads :
          /\ listLoads[l].step = "stats"
          /\ \E likesData \in {Data(SelectIn(likes, postIdsOf(listLoads[l].postsData))), NullData} :
             \E commentsData \in {Data(SelectIn(comments, postIdsOf(listLoads[l].postsData))), NullData} :
                /\ listFaults' = listFaults + (IF likesData.isNull THEN 1 ELSE 0)
                                            + (IF commentsData.isNull THEN 1 ELSE 0)
                /\ listFaults' <= MaxFaults
                /\ listLoads' = withLoad(RemoveAt(listLoads, l),
                                 [listLoads[l] EXCEPT !.step = "userLikes",
                                                      !.likesData = likesData,
                                                      !.commentsData = commentsData])
    /\ UNCHANGED << listTotal, listPosts, loading, hasMore, page, error, triggers,
                    effectPending, renderedLoading, slipped, listCalls, lastDone, lastAppend,
                    envVars, bulkVars, planVars, mapVars, cacheVars, cardVars, searchVars >>

\* the viewer-like query answers; the page is annotated and set or appended
ListUserLikesRespond ==
    /\ ~slipped
    /\ \E l \in DOMAIN listLoads :
          /\ listLoads[l].step = "userLikes"
          /\ \E data \in {Data(SelectEqIn(likes, user, postIdsOf(listLoads[l].postsData))), NullData} :
                /\ listFaults' = IF data.isNull THEN listFaults + 1 ELSE listFaults
                /\ listFaults' <= MaxFaults
                /\ LET annotated ==
                           postsWithStats(listLoads[l].postsData,
                                          getPostStats(listLoads[l].likesData,
                                                       listLoads[l].commentsData),
                                          postIdsOfRows(data))
                   IN  /\ listPosts' = IF listLoads[l].reset THEN annotated
                                       ELSE listPosts \o annotated
                       /\ hasMore' = (Len(annotated) = PageSize)
          /\ listLoads' = RemoveAt(listLoads, l)
          /\ Returned(listLoads[l], "applied")
    /\ loading' = FALSE
    /\ AfterHandler
    /\ UNCHANGED << listTotal, page, error, triggers, listCalls,
                    envVars, bulkVars, planVars, mapVars, cacheVars, cardVars, searchVars >>

NextList ==
    \/ MountEffects \/ InitialLoadEffect \/ ResetTrigger \/ LoadMore
    \/ ListPostsRespond \/ ListFail \/ ListStatsRespond \/ ListUserLikesRespond

SpecList == InitList /\ [][NextList]_vars


\* ------------------------------------------------------ PostCard.toggleLike
\* One card of the list, shown to viewer v1. The card decides between delete
\* and insert on the post.is_liked prop, which changes only when the reload
\* started by onUpdate has read the store and its setPosts has been rendered.
CardPosts == {1, 2}

ViewerLikes(table, usr, postId) ==
    {r \in table : r.post_id = postId /\ r.user_id = usr}

InitLike ==
    /\ likes = FewLikes
    /\ comments = OneComment
    /\ user = "v1"
    /\ cardPost \in CardPosts
    /\ cardLiked = (ViewerLikes(likes, user, cardPost) # {})
    /\ ownPost \in BOOLEAN
    /\ isLiking = FALSE
    /\ likeOp = "none"
    /\ cardReloads = << >>
    /\ toggled = 0
    /\ clicks = 0
    /\ cardFaults = 0
    /\ BulkIdle
    /\ PlanIdle
    /\ MapIdleState
    /\ CacheIdle
    /\ ListIdle
    /\ SearchIdle

\* a click on the like button:  if (!user || isLiking) return;
\* setIsLiking(true)  and the request chosen by post.is_liked is sent
ToggleLike ==
    /\ user # NoUser
    /\ ~isLiking
    /\ clicks < MaxClicks
    /\ clicks' = clicks + 1
    /\ isLiking' = TRUE
    /\ likeOp' = IF cardLiked THEN "delete" ELSE "insert"
    /\ UNCHANGED << cardLiked, cardReloads, toggled, cardPost, ownPost,
                    cardFaults, envVars, bulkVars, planVars, mapVars,
                    cacheVars, listVars, searchVars >>

\* onUpdate?.()  and  finally { setIsLiking(false) }
ToggleDone ==
    /\ cardReloads' = Append(cardReloads, "sent")
    /\ toggled' = toggled + 1
    /\ isLiking' = FALSE
    /\ likeOp' = "none"

\* delete().eq("user_id", user.id).eq("post_id", post.id)  answers: it
\* removes every row of the viewer for the post, also when there is none
LikeDeleteRespond ==
    /\ likeOp = "delete"
    /\ likes' = likes \ ViewerLikes(likes, user, cardPost)
    /\ ToggleDone
    /\ UNCHANGED << comments, user, cardLiked, clicks, cardPost, ownPost,
                    cardFaults, bulkVars, planVars, mapVars, cacheVars,
                    listVars, searchVars >>

\* insert({ user_id, post_id })  answers. The schema of the likes table is
\* not part of the repository: without a unique index on (user_id, post_id)
\* the row is added next to one that exists, with one the insert answers
\* with an error, which toggleLike throws and its catch logs.
LikeInsertRespond ==
    /\ likeOp = "insert"
    /\ \/ /\ likes' = likes \cup {Row(100 + clicks, cardPost, user)}
          /\ IF ownPost
                THEN ToggleDone
                ELSE /\ likeOp' = "notify"
                     /\ UNCHANGED << cardReloads, toggled, isLiking >>
       \/ /\ ViewerLikes(likes, user, cardPost) # {}
          /\ isLiking' = FALSE
          /\ likeOp' = "none"
          /\ UNCHANGED << likes, cardReloads, toggled >>
    /\ UNCHANGED << comments, user, cardLiked, clicks, cardPost, ownPost,
                    cardFaults, bulkVars, planVars, mapVars, cacheVars,
                    listVars, searchVars >>

\* await createLikeNotification(...) returns; it catches its own errors
LikeNotifyRespond ==
    /\ likeOp = "notify"
    /\ ToggleDone
    /\ UNCHANGED << cardLiked, clicks, cardPost, ownPost, cardFaults,
                    envVars, bulkVars, planVars, mapVars, cacheVars,
                    listVars, searchVars >>

\* the delete or insert request fails:  if (error) throw error, or the
\* await rejects; the catch logs and finally resets isLiking
LikeFail ==
    /\ likeOp \in {"delete", "insert"}
    /\ cardFaults < MaxFaults
    /\ cardFaults' = cardFaults + 1
    /\ isLiking' = FALSE
    /\ likeOp' = "none"
    /\ UNCHANGED << cardLiked, cardReloads, toggled, clicks, cardPost,
                    ownPost, envVars, bulkVars, planVars, mapVars,
                    cacheVars, listVars, searchVars >>

\* the reload started by onUpdate reads the viewer's likes
\* (page.tsx:237-246, userLikes.includes(post.id))
CardReloadRead ==
    /\ \E k \in DOMAIN cardReloads :
          /\ cardReloads[k] = "sent"
          /\ cardReloads' = [cardReloads EXCEPT ![k] =
                IF ViewerLikes(likes, user, cardPost) # {} THEN "liked"
                                                          ELSE "unliked"]
    /\ UNCHANGED << cardLiked, isLiking, likeOp, toggled, clicks, cardPost,
                    ownPost, cardFaults, envVars, bulkVars, planVars,
                    mapVars, cacheVars, listVars, searchVars >>

\* its setPosts is rendered: the card gets the new post.is_liked
CardReloadApply ==
    /\ \E k \in DOMAIN cardReloads :
          /\ cardReloads[k] # "sent"
          /\ cardLiked' = (cardReloads[k] = "liked")
          /\ cardReloads' = RemoveAt(cardReloads, k)
    /\ UNCHANGED << isLiking, likeOp, toggled, clicks, cardPost, ownPost,
                    cardFaults, envVars, bulkVars, planVars, mapVars,
                    cacheVars, listVars, searchVars >>

NextLike ==
    \/ ToggleLike \/ LikeDeleteRespond \/ LikeInsertRespond
    \/ LikeNotifyRespond \/ LikeFail \/ CardReloadRead \/ CardReloadApply

SpecLike == InitLike /\ [][NextLike]_vars


\* ------------------------------- loadPostsWithCounts next to a filled cache
\* The bulk loader in a process whose countsCache is empty or holds the entry
\* an earlier getCachedPostCounts(1) stored at time 0 when its count queries
\* rejected (counts 0/0), still fresh.
CacheStates ==
    { [cache |-> << >>, made |-> 0, last |-> << >>, failed |-> 0],
      [cache |-> << [data |-> [likes_count |-> 0, comments_count |-> 0],
                     timestamp |-> 0, storedAt |-> 0] >>,
       made |-> 1,
       last |-> << [postId |-> 1,
                    returned |-> [likes_count |-> 0, comments_count |-> 0]] >>,
       failed |-> 1] }

InitCachedBulk ==
    /\ EnvInit
    /\ baseUrlLen \in {54, 1916}
    /\ pc = "query"
    /\ postsData = << >>
    /\ queryError = FALSE
    /\ safeBatchSize = 0
    /\ postIdChunks = << >>
    /\ i = 0
    /\ req = [k \in Kinds |-> << >>]
    /\ resp = [k \in Kinds |-> << >>]
    /\ faults = 0
    /\ allLikesData = << >>
    /\ allCommentsData = << >>
    /\ userLikes = << >>
    /\ result = << >>
    /\ batchPromises = [k \in {"likes", "comments"} |-> << >>]
    /\ now = 0 /\ ticks = 0 /\ calls = << >>
    /\ \E c \in CacheStates :
          /\ countsCache = c.cache
          /\ callsMade = c.made
          /\ lastReturn = c.last
          /\ cacheFaults = c.failed
    /\ PlanIdle
    /\ MapIdleState
    /\ ListIdle
    /\ CardIdle
    /\ SearchIdle

SpecCachedBulk == InitCachedBulk /\ [][Next]_vars


\* ------------------------------------------------ the search box of the list
Texts == {"", " ", "a", "#t"}

\* String.prototype.trim on the texts used here
trim(text) == IF text = " " THEN "" ELSE text

\* the body of the search effect, as the calls it makes
searchEffect(debounced, query, mode) ==
    IF mode = "list" /\ debounced # query
      THEN IF trim(debounced) # ""
             THEN << [call |-> "searchPosts", arg |-> debounced] >>
             ELSE << [call |-> "loadRecentPosts", arg |-> ""] >>
      ELSE << >>

\* the effect on [viewMode, authLoading, user], for a signed-in viewer
viewModeEffect(mode) ==
    IF mode = "list" THEN << [call |-> "loadRecentPosts", arg |-> "viewMode"] >>
                     ELSE << >>

\* useDebounce(value, delay): every change of value restarts the timer, and
\* the debounced value becomes value when the timer runs out undisturbed
useDebounce(value) == TimerFor(value)

InitSearch ==
    /\ likes = FewLikes
    /\ comments = OneComment
    /\ user = "v1"
    /\ searchQuery = ""
    /\ debouncedSearch = ""
    /\ debounceTimer = TimerOff
    /\ viewMode \in {"list", "map"}
    /\ searchRuns = << >>
    /\ edits = 0
    /\ BulkIdle
    /\ PlanIdle
    /\ MapIdleState
    /\ CacheIdle
    /\ ListIdle
    /\ CardIdle

\* onChange of the search input: setSearchQuery(e.target.value)
TypeSearch ==
    /\ edits < MaxEdits
    /\ viewMode = "list"
    /\ \E text \in Texts \ {searchQuery} :
          /\ searchQuery' = text
          /\ debounceTimer' = useDebounce(text)
    /\ edits' = edits + 1
    /\ UNCHANGED << debouncedSearch, viewMode, searchRuns, envVars, bulkVars,
                    planVars, mapVars, cacheVars, listVars, cardVars >>

\* the button shown with the search results:
\* setSearchQuery(""); loadRecentPosts(0, true)
ClearSearch ==
    /\ edits < MaxEdits
    /\ viewMode = "list"
    /\ trim(debouncedSearch) # ""
    /\ searchQuery' = ""
    /\ debounceTimer' = IF searchQuery = "" THEN debounceTimer ELSE useDebounce("")
    /\ searchRuns' = Append(searchRuns, [call |-> "loadRecentPosts", arg |-> "clear"])
    /\ edits' = edits + 1
    /\ UNCHANGED << debouncedSearch, viewMode, envVars, bulkVars, planVars,
                    mapVars, cacheVars, listVars, cardVars >>

\* handleHashtagClick: setSearchQuery(`#${hashtag}`) and, from another mode,
\* setViewMode("list"); the two effects run after the commit
HashtagClick ==
    /\ edits < MaxEdits
    /\ searchQuery' = "#t"
    /\ debounceTimer' = IF searchQuery = "#t" THEN debounceTimer ELSE useDebounce("#t")
    /\ viewMode' = "list"
    /\ searchRuns' = IF viewMode = "list"
                       THEN searchRuns
                       ELSE searchRuns \o viewModeEffect("list")
                                       \o searchEffect(debouncedSearch, "#t", "list")
    /\ edits' = edits + 1
    /\ UNCHANGED << debouncedSearch, envVars, bulkVars, planVars, mapVars,
                    cacheVars, listVars, cardVars >>

\* setViewMode(newMode) from the navigation: the effects that depend on
\* viewMode run after the commit
SwitchViewMode ==
    /\ edits < MaxEdits
    /\ \E mode \in {"list", "map"} \ {viewMode} :
          /\ viewMode' = mode
          /\ searchRuns' = searchRuns \o viewModeEffect(mode)
                                       \o searchEffect(debouncedSearch, searchQuery, mode)
    /\ edits' = edits + 1
    /\ UNCHANGED << searchQuery, debouncedSearch, debounceTimer, envVars,
                    bulkVars, planVars, mapVars, cacheVars, listVars, cardVars >>

\* the timer runs out: debouncedSearch becomes the text it was started
\* with; when that changes debouncedSearch the search effect runs
DebounceFire ==
    /\ debounceTimer.on
    /\ debouncedSearch' = debounceTimer.value
    /\ debounceTimer' = TimerOff
    /\ searchRuns' = IF debouncedSearch' # debouncedSearch
                       THEN searchRuns \o searchEffect(debouncedSearch', searchQuery, viewMode)
                       ELSE searchRuns
    /\ UNCHANGED << searchQuery, viewMode, edits, envVars, bulkVars, planVars,
                    mapVars, cacheVars, listVars, cardVars >>

NextSearch ==
    \/ TypeSearch \/ ClearSearch \/ HashtagClick \/ SwitchViewMode
    \/ DebounceFire

SpecSearch == InitSearch /\ [][NextSearch]_vars


\* ======================================================== claims, bulk loader
WaveOf(c) == (c - 1) \div WaveSize
Dispatched(kind, c) == req[kind][c] # "idle"
ChunkIndexes == 1..Len(postIdChunks)

\* C1: in the paced fetch of like chunks and of comment chunks, a fetch of
\* wave k+1 is never dispatched before every fetch of wave k has settled.
C1_WaveAfterPreviousSettled ==
    \A kind \in {"likes", "comments"} : \A c, d \in ChunkIndexes :
        (WaveOf(d) = WaveOf(c) + 1 /\ Dispatched(kind, d)) => Settled(req[kind][c])

\* C2: the number of engagement requests (like rows, comment rows, viewer-like
\* rows) in flight at the same time never exceeds the wave concurrency 3.
C2_InFlightAtMostWave == InFlight <= WaveSize

\* C3: whenever the planner returns, its chunks concatenated in order are the
\* input, they are pairwise disjoint, each is non-empty and no longer than the
\* computed safe size, and an empty input gives zero chunks.
C3_ChunksPartitionInput ==
    planPc = "done" =>
        /\ Flat(planChunks) = planIds
        /\ \A c \in 1..Len(planChunks) :
              /\ Len(planChunks[c]) >= 1
              /\ Len(planChunks[c]) <= planSize
        /\ \A c, d \in 1..Len(planChunks) :
              c # d => SeqRange(planChunks[c]) \cap SeqRange(planChunks[d]) = {}
        /\ (planIds = << >> => planChunks = << >>)

C3_Witness ==
    /\ planPc = "done"
    /\ planSize = MAX_BATCH_SIZE
    /\ Len(planChunks) = 3
    /\ Len(planChunks[3]) < MAX_BATCH_SIZE

\* the load ran to its last statement and built the annotated posts
Composed == pc = "done" /\ result # << >>

\* the rows of a kind the store returned to this load, chunk by chunk
ReturnedRowsFor(kind, id) ==
    {cj \in ChunkIndexes \X (1..MaxPosts + MaxPosts) :
        /\ cj[2] <= Len(resp[kind][cj[1]])
        /\ resp[kind][cj[1]][cj[2]].post_id = id}

\* C4: the likes_count (comments_count) attached to an item is the number of
\* like rows (comment rows) returned by the store whose post_id is the item's id.
C4_CountsEqualReturnedRows ==
    Composed =>
        \A k \in 1..Len(result) :
            /\ result[k].likes_count = Cardinality(ReturnedRowsFor("likes", result[k].id))
            /\ result[k].comments_count = Cardinality(ReturnedRowsFor("comments", result[k].id))

C4_Witness ==
    /\ Composed
    /\ Len(postIdChunks) >= 2
    /\ \E k \in 1..Len(result) : result[k].likes_count = 2 /\ result[k].comments_count = 2
    /\ \E k \in 1..Len(result) : result[k].likes_count = 0 /\ result[k].comments_count = 1

ViewerLikeExists(id) ==
    user # NoUser /\ \E r \in likes : r.post_id = id /\ r.user_id = user

InstanceInput ==
    /\ Len(postsData) = 3
    /\ likes = FewLikes
    /\ comments = OneComment
    /\ user = "v1"

InstanceOutput ==
    << [id |-> 1, likes_count |-> 2, comments_count |-> 1, is_liked |-> TRUE],
       [id |-> 2, likes_count |-> 1, comments_count |-> 0, is_liked |-> FALSE],
       [id |-> 3, likes_count |-> 0, comments_count |-> 0, is_liked |-> FALSE] >>

\* C5 as stated: in every annotated result is_liked is true exactly for the
\* items that have a like row of the viewer, it is false without a viewer, and
\* the instance [A,B,C] gives A:{2,1,true}, B:{1,0,false}, C:{0,0,false}.
C5_LikedIffViewerRow ==
    Composed =>
        /\ \A k \in 1..Len(result) : result[k].is_liked <=> ViewerLikeExists(result[k].id)
        /\ (InstanceInput => result = InstanceOutput)

ChunkOf(id) == CHOOSE c \in ChunkIndexes : id \in SeqRange(postIdChunks[c])

\* C5 amended: is_liked is true exactly for the items that have a like row of
\* the viewer and whose chunk's viewer-like request succeeded; it is false
\* without a viewer; the instance holds when every request succeeded.
C5_LikedIffViewerRowReturned ==
    Composed =>
        /\ \A k \in 1..Len(result) :
              result[k].is_liked <=>
                  /\ ViewerLikeExists(result[k].id)
                  /\ req["userLikes"][ChunkOf(result[k].id)] = "ok"
        /\ (user = NoUser => \A k \in 1..Len(result) : ~result[k].is_liked)
        /\ (InstanceInput /\ faults = 0 => result = InstanceOutput)

C5_Witness ==
    /\ Composed
    /\ InstanceInput
    /\ faults = 0
    /\ result[1].is_liked
    /\ ~result[2].is_liked

FailedRequests ==
    {kc \in Kinds \X ChunkIndexes : req[kc[1]][kc[2]] \in {"error", "rejected"}}

StoreCount(table, id) == Cardinality({r \in table : r.post_id = id})

\* C6: when the fetch of one chunk fails (error result or rejected request) and
\* no other fails, the load still returns every primary item, and every item
\* outside the failed chunk carries its full counts.
C6_OneFailedChunkDegrades ==
    (pc = "done" /\ Len(postIdChunks) >= 2 /\ Cardinality(FailedRequests) = 1) =>
        /\ Len(result) = Len(postsData)
        /\ \A k \in 1..Len(result) :
              /\ result[k].id = postsData[k].id
              /\ << "likes", ChunkOf(result[k].id) >> \notin FailedRequests
                    => result[k].likes_count = StoreCount(likes, result[k].id)
              /\ << "comments", ChunkOf(result[k].id) >> \notin FailedRequests
                    => result[k].comments_count = StoreCount(comments, result[k].id)

\* what the caller of loadPostsWithCounts receives: the function has one try
\* block around its whole body and the catch block returns, so it never throws
CallerSees == [threw |-> FALSE, value |-> result]
EmptyFeed == [threw |-> FALSE, value |-> << >>]

\* C7: a failed primary query reaches the caller as something other than a
\* successful empty feed.
C7_PrimaryFailureSurfaced ==
    (pc = "done" /\ queryError) => CallerSees # EmptyFeed

\* C14: the result holds exactly one annotated entry per primary item, in the
\* primary query's order; an item without like or comment rows gets 0, 0 and
\* false, and rows of other posts are counted on no entry and add none.
C14_OneEntryPerPrimaryItem ==
    (pc = "done" /\ ~queryError) =>
        /\ Len(result) = Len(postsData)
        /\ \A k \in 1..Len(postsData) :
              /\ result[k].id = postsData[k].id
              /\ result[k].likes_count <= StoreCount(likes, result[k].id)
              /\ result[k].comments_count <= StoreCount(comments, result[k].id)
              /\ StoreCount(likes, result[k].id) = 0 => result[k].likes_count = 0
              /\ StoreCount(comments, result[k].id) = 0 => result[k].comments_count = 0
              /\ ~ViewerLikeExists(result[k].id) => ~result[k].is_liked

CeilDiv(a, b) == (a + b - 1) \div b

\* the loop of a kind has run to its end
LoopDone(kind) ==
    IF kind = "likes"
    THEN pc \in {"likes_await", "comments_loop", "comments_delay", "comments_await",
                 "user_likes", "user_await", "compose"} \/ Composed
    ELSE pc \in {"comments_await", "user_likes", "user_await", "compose"} \/ Composed

WavesOf(kind) == batchPromises[kind]

\* C15: once the loop of an engagement kind (like rows, comment rows) has run
\* over n chunks it has issued exactly ceil(n/3) waves, every chunk is in
\* exactly one wave and was sent once, no wave holds more than 3 chunks, and 7
\* chunks give waves of sizes 3, 3, 1.
C15_WavesCoverChunksOnce ==
    \A kind \in {"likes", "comments"} :
        LoopDone(kind) =>
            /\ Len(WavesOf(kind)) = CeilDiv(Len(postIdChunks), WaveSize)
            /\ \A c \in ChunkIndexes :
                  /\ Cardinality({w \in 1..Len(WavesOf(kind)) : c \in WavesOf(kind)[w]}) = 1
                  /\ Dispatched(kind, c)
            /\ \A w \in 1..Len(WavesOf(kind)) :
                  /\ Cardinality(WavesOf(kind)[w]) <= WaveSize
                  /\ WavesOf(kind)[w] \subseteq ChunkIndexes
            /\ Len(postIdChunks) = 7 =>
                  [w \in 1..Len(WavesOf(kind)) |-> Cardinality(WavesOf(kind)[w])] = << 3, 3, 1 >>

C15_Witness ==
    /\ Composed
    /\ Len(postIdChunks) = 7
    /\ Len(WavesOf("likes")) = 3
    /\ Len(WavesOf("comments")) = 3

\* the step sends the request of kind for chunk c
Sends(kind, c) == req[kind][c] = "idle" /\ req'[kind][c] # "idle"

\* C20: the inter-wave delay elapses between the dispatch of two consecutive
\* waves, so no step of the loader dispatches chunks of two different waves
\* (wave 1 is never dispatched at the same instant as wave 0).
C20_DelayBetweenWaves ==
    [][\A kind \in {"likes", "comments"} : \A c, d \in ChunkIndexes :
          (c \in DOMAIN req[kind] /\ d \in DOMAIN req[kind]
             /\ c \in DOMAIN req'[kind] /\ d \in DOMAIN req'[kind]
             /\ Sends(kind, c) /\ Sends(kind, d)) => WaveOf(c) = WaveOf(d)]_vars


\* ============================================================ claims, planner
\* C16: planning a non-empty identifier set with a computed safe batch size
\* <= 0 ends in a ConfigurationError.
C16_NonPositiveSizeFails ==
    (planPc \notin {"size", "chunk"} /\ planIds # << >> /\ planSize <= 0)
        => planPc = "ConfigurationError"


\* ================================================================ claims, map
\* C11: a viewport-change signal never starts a fetch in the step that
\* delivers it: the posts query is sent only after the debounce delay.
C11_SignalStartsNoFetch ==
    [][idleEvents' # idleEvents => loads' = loads]_vars

\* C9: the posts state of the map is only ever set by the most recently issued
\* viewport load; the result of a load that a newer load has superseded is
\* discarded when it resolves.
C9_OnlyLatestLoadApplied ==
    [][\A l \in DOMAIN loads :
          (loads[l].step # "applied" /\ loads'[l].step = "applied") => l = Len(loads)]_vars

\* C10: two consecutive viewport signals with the same bounding box (hence the
\* same canonical string) cause one posts query, not two.
C10_SameBoundsOneFetch ==
    \A l \in DOMAIN loads :
        l > 1 => ~(loads[l].ne = loads[l - 1].ne /\ loads[l].sw = loads[l - 1].sw)

\* C19: in every result the map applies, an item with is_liked = true has
\* likes_count >= 1, also when likes are inserted or deleted while the load
\* runs (stated here for runs in which no request has failed).
C19_LikedImpliesCounted ==
    mapFaults = 0 => \A k \in 1..Len(mapPosts) : mapPosts[k].is_liked => mapPosts[k].likes_count >= 1


\* =============================================================== claims, list
\* the step applies the page of load l to the posts state
Applies(l) ==
    /\ listLoads' = RemoveAt(listLoads, l)
    /\ lastDone' = Finished(listLoads[l], "applied")
    /\ listCalls' = listCalls

\* the ids at offsets 10 * pageNum .. 10 * pageNum + 9 of the posts table
PageIds(pageNum) ==
    LET first == PageSize * pageNum + 1
        last == Min2(PageSize * pageNum + PageSize, listTotal)
    IN  [k \in 1..(IF last >= first THEN last - first + 1 ELSE 0) |-> first + k - 1]

\* the items a step has put at the end of the posts state
Added(l) ==
    IF listLoads[l].reset THEN listPosts'
    ELSE SubSeq(listPosts', Len(listPosts) + 1, Len(listPosts'))

\* C12: a load returns exactly the rows at the offsets of its page, annotated;
\* when the k-th load has returned, the page index has advanced by one per
\* load (it is k - 1, the page just loaded, in the code's zero-based state),
\* and exhausted is set iff the page held fewer than 10 items.
C12_LoadsAdvanceByPage ==
    [][\A l \in DOMAIN listLoads :
          Applies(l) =>
              /\ postIdsOf(Added(l)) = PageIds(listLoads[l].pageNum)
              /\ hasMore' = (Len(Added(l)) = PageSize)
              /\ page' = listLoads[l].pageNum]_vars

\* C13: a scroll trigger delivered once hasMore is false starts no load and
\* leaves the posts, the page index and hasMore as they are.
C13_ExhaustedTriggerIsNoOp ==
    [][(Len(triggers') > Len(triggers) /\ ~hasMore) =>
          UNCHANGED << listPosts, page, hasMore, listLoads, loading, error >>]_vars

C13_Witness ==
    /\ Len(triggers) = MaxScrolls
    /\ \A t \in DOMAIN triggers : ~triggers[t].hasMore /\ ~triggers[t].loading
    /\ ~hasMore
    /\ Len(listPosts) = 4

AppendInFlight == \E l \in DOMAIN listLoads : ~listLoads[l].reset

\* the step is a scroll trigger whose loadMore starts a load
LoadMoreStarts == Len(triggers') > Len(triggers) /\ listCalls' = listCalls + 1

\* C22: when a load started by loadMore has failed, the page index is not
\* left past the failed page: the next loadMore requests that page again.
C22_FailedPageRequestedAgain ==
    [][(LoadMoreStarts /\ lastAppend.outcome = "failed") =>
          /\ page' = lastAppend.pageNum
          /\ \E l \in DOMAIN listLoads' :
                listLoads'[l] = NewLoad(lastAppend.pageNum, FALSE)]_vars

C22_Witness ==
    /\ lastAppend.outcome = "failed"
    /\ \E t \in DOMAIN triggers :
          triggers[t].after = "failed" /\ triggers[t].hasMore /\ ~triggers[t].loading
    /\ \E l \in DOMAIN listLoads : listLoads[l] = NewLoad(lastAppend.pageNum, FALSE)
    /\ page = lastAppend.pageNum

\* C29, the part a finite run can refute: when a load started by loadMore
\* returns fewer than 10 rows exhausted is set and the posts are the N posts
\* of the table in order, each once; and after that no scroll trigger starts
\* a further page request (with N a multiple of 10 the empty page is
\* requested once). Runs in which no request fails.
C29_ExhaustedEndsPaging ==
    [][listFaults' = 0 =>
          /\ (lastAppend' # lastAppend /\ lastAppend'.outcome = "applied"
                                       /\ lastAppend'.rows < PageSize) =>
                /\ ~hasMore'
                /\ postIdsOf(listPosts') = [k \in 1..listTotal |-> k]
          /\ (lastAppend.outcome = "applied" /\ lastAppend.rows < PageSize) =>
                ~LoadMoreStarts]_vars

\* the ids of the first n pages of the posts table, in order
FirstPages(n) == [k \in 1..Min2(PageSize * n, listTotal) |-> k]

\* C17: the accumulated posts are pages 0..j in order for some j, no post
\* twice and no page missing, and they are pages 0..page whenever posts are
\* shown and no append load is in flight, whether or not a reset load overlaps.
C17_PostsArePagesUpToPage ==
    /\ \E n \in 0..(page + MaxListLoads) : postIdsOf(listPosts) = FirstPages(n)
    /\ (listPosts # << >> /\ ~AppendInFlight) => postIdsOf(listPosts) = FirstPages(page + 1)


\* ============================================================== claims, cache
\* the step is a call of getCachedPostCounts for postId
CallOf(postId) ==
    /\ callsMade' = callsMade + 1
    /\ postId = IF calls' # calls THEN calls'[Len(calls')].postId ELSE lastReturn'[1].postId

\* the call returns the entry's counts and sends nothing
ServedFromCache(postId) ==
    /\ lastReturn' = Return(postId, countsCache[postId].data)
    /\ calls' = calls
    /\ countsCache' = countsCache

\* the call sends the two count queries and returns nothing yet
Fetches(postId) ==
    /\ Len(calls') = Len(calls) + 1
    /\ calls'[Len(calls')].likesResult = Pending
    /\ calls'[Len(calls')].commentsResult = Pending
    /\ lastReturn' = lastReturn

\* a fetching call resumes: it sets the entry of its item to the counts it
\* returns, stamped with the time the call began
FetchReplacesEntry ==
    \A k \in DOMAIN calls :
        (Len(calls') < Len(calls) /\ calls' = RemoveAt(calls, k)) =>
            /\ calls[k].postId \in DOMAIN countsCache'
            /\ countsCache'[calls[k].postId].data = lastReturn'[1].returned
            /\ countsCache'[calls[k].postId].timestamp = calls[k].now

\* C18: the timestamp of a cache entry never decreases: the counts stored by a
\* call that began later are never replaced by those of a call that began
\* earlier and completes afterwards.
C18_EntryTimestampMonotone ==
    [][\A postId \in DOMAIN countsCache :
          countsCache'[postId].timestamp >= countsCache[postId].timestamp]_vars

\* C21: an entry is served as long as now - computedAt <= TTL, so a call made
\* exactly 30000 ms after the entry's timestamp returns the cached counts
\* without a fetch.
C21_ServedUpToTtlInclusive ==
    [][\A postId \in DOMAIN countsCache :
          (CallOf(postId) /\ now - countsCache[postId].timestamp <= CACHE_DURATION)
              => ServedFromCache(postId)]_vars

\* the step ends call k because a count query rejected
FetchFailed(k) ==
    /\ k \in DOMAIN calls
    /\ calls' = RemoveAt(calls, k)
    /\ cacheFaults' = cacheFaults + 1
    /\ lastReturn' = Return(calls[k].postId, Counts(0, 0))
    /\ \E which \in {"likesResult", "commentsResult"} : calls[k][which].state = "pending"

\* C24: when the count fetch of a call fails, the fallback counts
\* {likes_count 0, comments_count 0} are returned but not put in the cache.
C24_FallbackNotCached ==
    [][\A k \in DOMAIN calls : FetchFailed(k) => countsCache' = countsCache]_vars

\* the viewer liked the card's post before the first click
InitiallyLiked == ViewerLikes(FewLikes, "v1", cardPost) # {}

\* C23: whatever the clicks, also a click made after the previous toggle
\* has finished and before the reloaded post data has arrived, the store
\* holds at most one like row of the viewer for the post, and every toggle
\* that ran to its end has flipped the liked state: after an even number of
\* them the post is liked as at the start, after an odd number it is not.
C23_OneRowAndTogglesFlip ==
    /\ Cardinality(ViewerLikes(likes, "v1", cardPost)) <= 1
    /\ likeOp = "none" =>
          ((ViewerLikes(likes, "v1", cardPost) # {})
              = (IF toggled % 2 = 0 THEN InitiallyLiked ELSE ~InitiallyLiked))

\* C30: in list mode, when the debounced search text changes to a text
\* that is not blank a search for that text is executed, and when it changes
\* to a blank text the recent posts are reloaded from page 0.
C30_DebouncedChangeRuns ==
    [][(debouncedSearch' # debouncedSearch /\ viewMode = "list") =>
          searchRuns' = Append(searchRuns,
              IF trim(debouncedSearch') # ""
                THEN [call |-> "searchPosts", arg |-> debouncedSearch']
                ELSE [call |-> "loadRecentPosts", arg |-> ""])]_vars

\* C25: every like, comment or viewer-like request a load path sends names
\* at most MAX_BATCH_SIZE (50) post ids, however many posts its primary
\* query returned. Here for the map: a load of loadPostsInArea that has
\* passed its posts query sends its three requests with all of postsData.
C25_RequestsNameAtMostBatch ==
    \A l \in DOMAIN loads :
        loads[l].step \in {"likes", "comments", "userLikes"}
            => Len(loads[l].postsData) <= MAX_BATCH_SIZE

\* the counts a single request naming every id would have given
UnchunkedCounts(table) == reduceCounts(SelectIn(table, postIdsOf(postsData)), EmptyAcc)

CountsAsUnchunked ==
    \A k \in 1..Len(result) :
        /\ result[k].likes_count = Lookup(UnchunkedCounts(likes), result[k].id)
        /\ result[k].comments_count = Lookup(UnchunkedCounts(comments), result[k].id)

AllIds == postIdsOf(postsData)
ViewerRows == IF user # NoUser THEN SelectEqIn(likes, user, AllIds) ELSE << >>

\* loadRecentPosts and searchPosts: getPostStats, userLikes, postsWithStats
ListLoaderGives ==
    postsWithStats(postsData,
                   getPostStats(Data(SelectIn(likes, AllIds)), Data(SelectIn(comments, AllIds))),
                   postIdsOfRows(Data(ViewerRows)))

\* Map.loadPostsInArea: three unchunked requests, reduce, postsWithCounts
MapLoaderGives ==
    annotate(postsData, SelectIn(likes, AllIds), SelectIn(comments, AllIds), ViewerRows)

\* C26: for the same posts, the same like and comment rows and the same
\* viewer, and when every fetch succeeds, the bulk loader attaches to every
\* item the likes_count, comments_count and is_liked that the list loader
\* and the search loader attach and that the map loader attaches.
C26_LoadersAnnotateAlike ==
    (Composed /\ FailedRequests = {}) =>
        /\ result = ListLoaderGives
        /\ result = MapLoaderGives

C26_Witness ==
    /\ Composed
    /\ FailedRequests = {}
    /\ Len(postIdChunks) >= 2
    /\ \E k \in 1..Len(result) : result[k].is_liked /\ result[k].likes_count >= 2
    /\ \E k \in 1..Len(result) : ~result[k].is_liked /\ result[k].comments_count >= 1
    /\ result = ListLoaderGives

\* C28: a bulk load never reads or writes the TTL cache: no step of
\* loadPostsWithCounts changes countsCache, and the counts of a load whose
\* requests all succeeded are those of the store also for an item with a
\* fresh cache entry that holds other counts.
C28_BulkLeavesCacheAlone ==
    [][/\ countsCache' = countsCache
       /\ (pc' = "done" /\ result' # << >> /\ FailedRequests' = {}) =>
             \A k \in 1..Len(result') :
                 /\ result'[k].likes_count = StoreCount(likes, result'[k].id)
                 /\ result'[k].comments_count = StoreCount(comments, result'[k].id)]_vars

C28_Witness ==
    /\ Composed
    /\ FailedRequests = {}
    /\ 1 \in DOMAIN countsCache
    /\ isFresh(cacheGet(1), now)
    /\ countsCache[1].data.likes_count = 0
    /\ result[1].id = 1
    /\ result[1].likes_count > 0

\* C8 as stated: a call made less than the TTL after an entry was stored
\* returns the stored counts without a fetch; a call made more than the TTL
\* after it was stored ignores the entry, fetches and replaces the entry.
C8_ServedWithinTtlOfStore ==
    [][/\ \A postId \in DOMAIN countsCache :
             CallOf(postId) =>
                 /\ now - countsCache[postId].storedAt < CACHE_DURATION => ServedFromCache(postId)
                 /\ now - countsCache[postId].storedAt > CACHE_DURATION => Fetches(postId)
       /\ FetchReplacesEntry]_vars

\* C8 amended: the TTL runs from the entry's timestamp, which is the time the
\* call that stored the entry began. A call made less than the TTL after that
\* time returns the stored counts without a fetch; a call made more than the
\* TTL after it ignores the entry, fetches and replaces the entry.
C8_ServedWithinTtlOfTimestamp ==
    [][/\ \A postId \in DOMAIN countsCache :
             CallOf(postId) =>
                 /\ now - countsCache[postId].timestamp < CACHE_DURATION => ServedFromCache(postId)
                 /\ now - countsCache[postId].timestamp > CACHE_DURATION => Fetches(postId)
       /\ FetchReplacesEntry]_vars

\* an entry stored late (its call took time) has been served, has expired and
\* has been replaced, after the store had changed
C8_Witness ==
    /\ callsMade >= 2
    /\ calls = << >>
    /\ lastReturn # << >>
    /\ lastReturn[1].postId \in DOMAIN countsCache
    /\ countsCache[lastReturn[1].postId].timestamp > CACHE_DURATION
    /\ countsCache[lastReturn[1].postId].storedAt > countsCache[lastReturn[1].postId].timestamp
    /\ countsCache[lastReturn[1].postId].data = lastReturn[1].returned
    /\ lastReturn[1].returned.likes_count = countExact(likes, lastReturn[1].postId)
    /\ \E r \in likes : r.user_id = "v3"

====
